---- MODULE Spec2Model ----
(***************************************************************************)
(* klaviyo-node: the constructor, the request dispatcher                   *)
(* (_requestKlaviyo), its retry policy (axios-retry installed by the       *)
(* constructor on the axios singleton) and the facade: track, identify,    *)
(* suppress and subscribe, with the requests they build.                   *)
(*                                                                         *)
(* The repository holds three revisions of the Klaviyo class:              *)
(*   "current" src/lib/index.js 1-301   (ensureIdentifier, private key)    *)
(*   "email"   src/lib/index.js 303-516 (track(eventName, email, ...))     *)
(*   "legacy"  src/unnamed/part_002     (error.response.status unguarded)  *)
(* A process loads one of them; rev records which.                         *)
(*                                                                         *)
(* Log lines are the calls made on this.logger.log(level, ...); whether    *)
(* the winston transport prints a line is decided by options.log and       *)
(* options.logLevel and is not part of the dispatcher.                     *)
(***************************************************************************)
EXTENDS Integers, Sequences, FiniteSets, TLC

VARIABLES
  rev,           \* the revision of the class this process loaded
  constructions, \* every new Klaviyo(...) evaluated so far and how it ended
  clients,       \* the Klaviyo objects constructed so far
  interceptors,  \* axios.interceptors.response of the axios singleton:
                 \* the retries option of each axios-retry handler, in order
  calls,         \* every facade invocation made so far
  probe          \* input and result of one classification (SpecClassify)

vars == <<rev, constructions, clients, interceptors, calls, probe>>

----------------------------------------------------------------------------
(* Bounds *)

MaxClients == 2
MaxCalls == 1        \* facade invocations in Spec
MaxConcurrent == 2   \* facade invocations in SpecConcurrent
MaxStatus == 600

Revs == {"current", "email", "legacy"}

----------------------------------------------------------------------------
(* Values *)

Absent == "absent"                 \* an undefined argument or a missing key

Truthy(v) == v # Absent /\ v # ""  \* JavaScript truthiness of a string

DefaultRetryCount == 3
DefaultApiBasePath == "https://a.klaviyo.com/api"

\* An optional argument or option: <<>> when the caller leaves it out,
\* <<v>> when the caller passes v.
Given(v) == <<v>>
Omitted == <<>>
OrDefault(arg, d) == IF arg = Omitted THEN d ELSE arg[1]

\* options.retryCount as the caller passes it
RetryOptions == {Omitted, Given(0), Given(1)}

\* customerProperties objects: $email and $id, each possibly missing
CustomerProps ==
  { [email |-> Absent,    id |-> Absent],
    [email |-> "",        id |-> Absent],
    [email |-> "a@b.com", id |-> Absent],
    [email |-> Absent,    id |-> "13134"],
    [email |-> "a@b.com", id |-> "13134"] }

EmptyObject == [email |-> Absent, id |-> Absent]

\* the customerProperties argument of track / identify
CustomerPropsArgs == {Omitted} \cup {Given(o) : o \in CustomerProps}

\* the email argument of track / identify in the email and legacy revisions
EmailArgs == {Absent, "a@b.com"}

\* the arguments of a facade call that passes none; each operation reads
\* the ones it declares
NoArgs ==
  [eventName |-> Absent, email |-> Absent, cp |-> Omitted, ep |-> Omitted,
   listId |-> Absent, emails |-> Omitted]

\* An axios error: the status of the response it carries (0 when it carries
\* none) and its error.code ("" when it has none).
HttpError(s) == [hasResponse |-> TRUE, status |-> s, code |-> ""]
NoResponseError(c) == [hasResponse |-> FALSE, status |-> 0, code |-> c]

\* The outcomes the transport produces in Spec
Bodies == {0, 1}
TransportErrors ==
  { NoResponseError("ECONNRESET"), NoResponseError("ECONNABORTED"),
    HttpError(400), HttpError(429), HttpError(500) }

NoError == [hasResponse |-> FALSE, status |-> 0, code |-> "no error"]

----------------------------------------------------------------------------
(* Log lines: the level; for the error line the status it carries; text,
   the endpoint written into the message; about, the argument values
   written into the message; meta, the object passed to logger.log after
   the message, named by the variable that holds it *)

LogLine(level) ==
  [level |-> level, hasStatus |-> FALSE, status |-> 0, text |-> "",
   about |-> <<>>, meta |-> "none"]

\* this.logger.log('info', endpoint)
InfoLine(endpoint) ==
  [level |-> "info", hasStatus |-> FALSE, status |-> 0, text |-> endpoint,
   about |-> <<>>, meta |-> "none"]

\* get(error, 'response.status', 'Unkown Status')
ErrorLine(error) ==
  [level |-> "error", hasStatus |-> error.hasResponse,
   status |-> error.status, text |-> "", about |-> <<>>, meta |-> "none"]

\* the error line carrying the body of the request
AttachRequestData(r, level) ==
  IF r = "current" THEN (IF level = "error" THEN "requestData" ELSE "none")
  ELSE IF r = "email"
    THEN (IF level = "error" THEN "payload" ELSE "eventData")
  ELSE "eventData"

\* the object a line logged by the .then and .catch handlers carries: the
\* current revision passes params with the error line and nothing with the
\* others; the email revision passes data with the warn and verbose lines
\* and payload with the error line; the legacy revision passes data
Attach(r, level) ==
  IF r = "current" THEN (IF level = "error" THEN "params" ELSE "none")
  ELSE IF r = "email"
    THEN (IF level = "error" THEN "payload" ELSE "eventData")
  ELSE "eventData"

\* a handler's result, its new log line (if it logged one) carrying the
\* object of its revision
Attached(r, before, after) ==
  IF Len(after.logs) = Len(before.logs) THEN after
  ELSE [after EXCEPT
          !.logs[Len(after.logs)].meta =
             Attach(r, after.logs[Len(after.logs)].level)]

CountLevel(logs, level) ==
  Cardinality({i \in 1..Len(logs) : logs[i].level = level})

----------------------------------------------------------------------------
(* Retry policy *)

\* axiosRetry.isNetworkError: no response, an error code, not a timeout
\* (ECONNABORTED) and not one of the codes is-retry-allowed refuses.
isNetworkError(error) ==
  /\ ~error.hasResponse
  /\ error.code # ""
  /\ error.code # "ECONNABORTED"
  /\ error.code # "ENOTFOUND"

\* the predicate without its rate-limit clause
_isErrorRetryableNo429(error) ==
  IF isNetworkError(error) THEN TRUE
  ELSE IF ~error.hasResponse THEN FALSE
  ELSE IF error.status >= 500 /\ error.status <= 599 THEN TRUE
  ELSE FALSE

\* the retry predicate retrying every error that carries no response
_isErrorRetryableUnknownCause(error) ==
  IF isNetworkError(error) THEN TRUE
  ELSE IF ~error.hasResponse THEN TRUE
  ELSE IF error.status >= 500 /\ error.status <= 599 THEN TRUE
  ELSE IF error.status = 429 THEN TRUE
  ELSE FALSE

_isErrorRetryable(error) ==
  IF isNetworkError(error) THEN TRUE
  ELSE IF ~error.hasResponse THEN FALSE
  ELSE IF error.status >= 500 /\ error.status <= 599 THEN TRUE
  ELSE IF error.status = 429 THEN TRUE
  ELSE FALSE

\* assign(defaultOptions, options).retryCount
Retries(options) == OrDefault(options.retryCount, DefaultRetryCount)

PublicKeyMsg == "You must pass your Klaviyo public key."
NoThrow == "no throw"

\* the constructor installing the retry policy before it looks at publicKey
constructorInstallsFirst(hs, publicKey, privateKey, options) ==
  IF ~Truthy(publicKey)
    THEN [threw |-> PublicKeyMsg, logger |-> FALSE, object |-> <<>>,
          interceptors |-> Append(hs, Retries(options))]
    ELSE [threw |-> NoThrow, logger |-> TRUE,
          object |-> <<[publicKey |-> publicKey, privateKey |-> privateKey,
                        apiBasePath |->
                           OrDefault(options.apiBasePath, DefaultApiBasePath),
                        retryCount |-> Retries(options)]>>,
          interceptors |-> Append(hs, Retries(options))]

\* new Klaviyo(publicKey, privateKey, options) evaluated while hs are the
\* response interceptors of the axios singleton: the message thrown, whether
\* winston.createLogger ran, the object built (none when the constructor
\* threw) and the response interceptors afterwards.
constructor(hs, publicKey, privateKey, options) ==
  IF ~Truthy(publicKey)
    THEN [threw |-> PublicKeyMsg, logger |-> FALSE, object |-> <<>>,
          interceptors |-> hs]
    ELSE [threw |-> NoThrow, logger |-> TRUE,
          object |-> <<[publicKey |-> publicKey, privateKey |-> privateKey,
                        apiBasePath |->
                           OrDefault(options.apiBasePath, DefaultApiBasePath),
                        retryCount |-> Retries(options)]>>,
          interceptors |-> Append(hs, Retries(options))]

\* the interceptors retrying whatever the error is
RECURSIVE PropagateAnyError(_, _, _)
PropagateAnyError(stack, retryCount, error) ==
  IF stack = <<>>
    THEN [retry |-> FALSE, stack |-> <<>>, retryCount |-> retryCount]
  ELSE IF Head(stack) = <<>>
    THEN PropagateAnyError(Tail(stack), retryCount, error)
  ELSE IF retryCount < Head(Head(stack))
    THEN [retry |-> TRUE,
          stack |-> <<Tail(Head(stack))>> \o Tail(stack),
          retryCount |-> retryCount + 1]
  ELSE PropagateAnyError(<<Tail(Head(stack))>> \o Tail(stack),
                         retryCount, error)

\* the interceptors giving up one retry early
RECURSIVE PropagateOneShort(_, _, _)
PropagateOneShort(stack, retryCount, error) ==
  IF stack = <<>>
    THEN [retry |-> FALSE, stack |-> <<>>, retryCount |-> retryCount]
  ELSE IF Head(stack) = <<>>
    THEN PropagateOneShort(Tail(stack), retryCount, error)
  ELSE IF _isErrorRetryable(error) /\ retryCount + 1 < Head(Head(stack))
    THEN [retry |-> TRUE,
          stack |-> <<Tail(Head(stack))>> \o Tail(stack),
          retryCount |-> retryCount + 1]
  ELSE PropagateOneShort(<<Tail(Head(stack))>> \o Tail(stack),
                         retryCount, error)

\* The rejection of one attempt running through the response interceptors.
\* stack holds, innermost request first, the handlers of each nested
\* axios(config) request that have not yet seen the rejection; each handler
\* is the retries option it was installed with.  The first handler whose
\* retryCondition holds and whose retries exceed config['axios-retry']
\* .retryCount schedules a new request; a handler that declines passes the
\* rejection to the next one, and past the last handler of a request to the
\* handlers of the request that issued it.
RECURSIVE Propagate(_, _, _)
Propagate(stack, retryCount, error) ==
  IF stack = <<>>
    THEN [retry |-> FALSE, stack |-> <<>>, retryCount |-> retryCount]
  ELSE IF Head(stack) = <<>>
    THEN Propagate(Tail(stack), retryCount, error)
  ELSE IF _isErrorRetryable(error) /\ retryCount < Head(Head(stack))
    THEN [retry |-> TRUE,
          stack |-> <<Tail(Head(stack))>> \o Tail(stack),
          retryCount |-> retryCount + 1]
  ELSE Propagate(<<Tail(Head(stack))>> \o Tail(stack), retryCount, error)

----------------------------------------------------------------------------
(* Facade preconditions *)

IdentifierMsg == "No identifier ($email or $id) found in customerProperties"
EmailMsg == "You must pass an email value."

\* the check looking at $email only
ensureIdentifierEmailOnly(customerProperties) ==
  IF Truthy(customerProperties.email) THEN NoThrow ELSE IdentifierMsg

\* assert(customerProperties.$email || customerProperties.$id, ...):
\* the message thrown, or NoThrow
ensureIdentifier(customerProperties) ==
  IF Truthy(customerProperties.email) \/ Truthy(customerProperties.id)
    THEN NoThrow
    ELSE IdentifierMsg

----------------------------------------------------------------------------
(* JSON and base64, on sequences of one-character strings *)

----------------------------------------------------------------------------
(* Text: JSON.stringify, Buffer.from(...).toString('base64') and their
   inverses work on sequences of one-character strings. *)

\* the printable ASCII characters in code order; the first has code 32
\* (code 96 is spelled out by name)
AsciiChars ==
  <<" ", "!", "\"", "#", "$", "%", "&", "'", "(", ")", "*", "+", ",",
    "-", ".", "/", "0", "1", "2", "3", "4", "5", "6", "7", "8", "9", ":",
    ";", "<", "=", ">", "?", "@", "A", "B", "C", "D", "E", "F", "G", "H",
    "I", "J", "K", "L", "M", "N", "O", "P", "Q", "R", "S", "T", "U", "V",
    "W", "X", "Y", "Z", "[", "\\", "]", "^", "_", "grave", "a", "b", "c",
    "d", "e", "f", "g", "h", "i", "j", "k", "l", "m", "n", "o", "p", "q",
    "r", "s", "t", "u", "v", "w", "x", "y", "z", "{", "|", "}", "~">>

\* the UTF-8 byte of a character (all characters here are ASCII)
Ord == [ch \in {AsciiChars[i] : i \in DOMAIN AsciiChars} |->
          (CHOOSE i \in DOMAIN AsciiChars : AsciiChars[i] = ch)
            + 31]

Chr(code) == AsciiChars[code - 31]

\* the base64 alphabet, value 0 first
Base64Chars ==
  <<"A", "B", "C", "D", "E", "F", "G", "H", "I", "J", "K", "L", "M", "N",
    "O", "P", "Q", "R", "S", "T", "U", "V", "W", "X", "Y", "Z", "a", "b",
    "c", "d", "e", "f", "g", "h", "i", "j", "k", "l", "m", "n", "o", "p",
    "q", "r", "s", "t", "u", "v", "w", "x", "y", "z", "0", "1", "2", "3",
    "4", "5", "6", "7", "8", "9", "+", "/">>

Base64Value == [ch \in {Base64Chars[i] : i \in DOMAIN Base64Chars} |->
                 (CHOOSE i \in DOMAIN Base64Chars : Base64Chars[i] = ch) - 1]

\* the characters of every string the model passes through JSON
Spell ==
  [s \in {"event", "properties", "customer_properties", "token", "$email",
         "$id", "api_key", "email", "plan", "pk", "pk2", "sk", "ev", "x", "a\"b",
         "a@b.com", "13134", ""} |->
     CASE s = "event" -> <<"e", "v", "e", "n", "t">>
       [] s = "properties" -> <<"p", "r", "o", "p", "e", "r", "t", "i", "e",
            "s">>
       [] s = "customer_properties" -> <<"c", "u", "s", "t", "o", "m", "e",
            "r", "_", "p", "r", "o", "p", "e", "r", "t", "i", "e", "s">>
       [] s = "token" -> <<"t", "o", "k", "e", "n">>
       [] s = "$email" -> <<"$", "e", "m", "a", "i", "l">>
       [] s = "$id" -> <<"$", "i", "d">>
       [] s = "api_key" -> <<"a", "p", "i", "_", "k", "e", "y">>
       [] s = "email" -> <<"e", "m", "a", "i", "l">>
       [] s = "plan" -> <<"p", "l", "a", "n">>
       [] s = "pk" -> <<"p", "k">>
       [] s = "pk2" -> <<"p", "k", "2">>
       [] s = "sk" -> <<"s", "k">>
       [] s = "ev" -> <<"e", "v">>
       [] s = "x" -> <<"x">>
       [] s = "a\"b" -> <<"a", "\"", "b">>
       [] s = "a@b.com" -> <<"a", "@", "b", ".", "c", "o", "m">>
       [] s = "13134" -> <<"1", "3", "1", "3", "4">>
       [] s = "" -> <<>>]

\* JavaScript values that reach JSON.stringify: strings, objects (their
\* own keys in insertion order) and undefined
JStr(chars) == [t |-> "string", v |-> chars]
JObj(members) == [t |-> "object", v |-> members]
JUndefined == [t |-> "undefined", v |-> <<>>]
Member(key, value) == [k |-> key, v |-> value]

\* the value of obj[key], undefined when the object has no such key
Get(obj, key) ==
  IF \E i \in DOMAIN obj.v : obj.v[i].k = key
    THEN obj.v[CHOOSE i \in DOMAIN obj.v : obj.v[i].k = key].v
    ELSE JUndefined

RECURSIVE JsonEscape(_)
JsonEscape(chars) ==
  IF chars = <<>> THEN <<>>
  ELSE (IF Head(chars) \in {"\"", "\\"} THEN <<"\\", Head(chars)>>
                                         ELSE <<Head(chars)>>)
       \o JsonEscape(Tail(chars))

JsonQuote(chars) == <<"\"">> \o JsonEscape(chars) \o <<"\"">>

\* JSON.stringify(value) for a string or an object; a member whose value is
\* undefined is left out
RECURSIVE JSON_stringify(_)
JSON_stringify(value) ==
  IF value.t = "string" THEN JsonQuote(value.v)
  ELSE LET kept == SelectSeq(value.v, LAMBDA m : m.v.t # "undefined")
           RECURSIVE Members(_)
           Members(i) ==
             IF i > Len(kept) THEN <<>>
             ELSE (IF i > 1 THEN <<",">> ELSE <<>>)
                  \o JsonQuote(kept[i].k) \o <<":">>
                  \o JSON_stringify(kept[i].v) \o Members(i + 1)
       IN <<"{">> \o Members(1) \o <<"}">>

\* The receiving side, used to read a payload back: JSON.parse on the text
\* of a string or an object, as the value read from the front of the text
\* and the text left over
RECURSIVE JsonReadString(_, _)
JsonReadString(text, acc) ==
  IF Head(text) = "\"" THEN [v |-> acc, rest |-> Tail(text)]
  ELSE IF Head(text) = "\\"
    THEN JsonReadString(Tail(Tail(text)), Append(acc, text[2]))
  ELSE JsonReadString(Tail(text), Append(acc, Head(text)))

RECURSIVE JsonReadValue(_)
JsonReadValue(text) ==
  IF Head(text) = "\""
    THEN LET s == JsonReadString(Tail(text), <<>>)
         IN [v |-> JStr(s.v), rest |-> s.rest]
  ELSE LET RECURSIVE ReadMembers(_, _)
           ReadMembers(rest, acc) ==
             IF Head(rest) = "}" THEN [v |-> JObj(acc), rest |-> Tail(rest)]
             ELSE IF Head(rest) = "," THEN ReadMembers(Tail(rest), acc)
             ELSE LET key == JsonReadString(Tail(rest), <<>>)
                      val == JsonReadValue(Tail(key.rest))
                  IN ReadMembers(val.rest, Append(acc, Member(key.v, val.v)))
       IN ReadMembers(Tail(text), <<>>)

JSON_parse(text) == JsonReadValue(text).v

\* Buffer.from(text).toString('base64')
RECURSIVE Base64Encode(_)
Base64Encode(bytes) ==
  LET Sextet(n) == Base64Chars[n + 1] IN
  IF bytes = <<>> THEN <<>>
  ELSE IF Len(bytes) = 1
    THEN LET n == bytes[1] * 65536
         IN <<Sextet(n \div 262144), Sextet((n \div 4096) % 64), "=", "=">>
  ELSE IF Len(bytes) = 2
    THEN LET n == bytes[1] * 65536 + bytes[2] * 256
         IN <<Sextet(n \div 262144), Sextet((n \div 4096) % 64),
              Sextet((n \div 64) % 64), "=">>
  ELSE LET n == bytes[1] * 65536 + bytes[2] * 256 + bytes[3]
       IN <<Sextet(n \div 262144), Sextet((n \div 4096) % 64),
            Sextet((n \div 64) % 64), Sextet(n % 64)>>
          \o Base64Encode(SubSeq(bytes, 4, Len(bytes)))

\* Buffer.from(payload, 'base64'): the bytes
RECURSIVE Base64Decode(_)
Base64Decode(chars) ==
  IF chars = <<>> THEN <<>>
  ELSE LET Value(i) == IF chars[i] = "=" THEN 0 ELSE Base64Value[chars[i]]
           n == Value(1) * 262144 + Value(2) * 4096 + Value(3) * 64 + Value(4)
           bytes == <<n \div 65536, (n \div 256) % 256, n % 256>>
           count == IF chars[3] = "=" THEN 1 ELSE IF chars[4] = "=" THEN 2 ELSE 3
       IN SubSeq(bytes, 1, count) \o Base64Decode(SubSeq(chars, 5, Len(chars)))

Bytes(text) == [i \in DOMAIN text |-> Ord[text[i]]]
Text(bytes) == [i \in DOMAIN bytes |-> Chr(bytes[i])]

\* Buffer.from(JSON.stringify(data)).toString('base64')
EncodePayload(data) == Base64Encode(Bytes(JSON_stringify(data)))

\* base64-decode, then JSON.parse
DecodePayload(payload) == JSON_parse(Text(Base64Decode(payload)))

----------------------------------------------------------------------------
(* Calls *)

NoOutcome == [kind |-> "none", body |-> 0, error |-> NoError]
SuccessOutcome(body) == [kind |-> "success", body |-> body, error |-> NoError]
FailureOutcome(error) == [kind |-> "failure", body |-> 0, error |-> error]

\* what the promise returned by _requestKlaviyo was settled with: the body
\* it resolved with, or the error it was rejected with and the attempt that
\* produced that error
NoValue == [body |-> 0, error |-> NoError, attempt |-> 0]

\* the request no call has built yet
NoRequest == [method |-> "", url |-> "", params |-> Omitted, data |-> Omitted]

\* A facade invocation at its first statement: cp is customerProperties
\* after the default is applied, callerCp the object the caller passed (none
\* when the caller passed none) as it is once the call has returned.
Invoke(k, op, args) ==
  [client |-> k, op |-> op, args |-> args,
   cp |-> OrDefault(args.cp, EmptyObject), callerCp |-> args.cp,
   pc |-> "running", threw |-> NoThrow, logs |-> <<>>,
   request |-> NoRequest, sent |-> <<>>, delays |-> <<>>, elapsed |-> <<>>,
   attempts |-> 0, retryCount |-> 0, stack |-> <<>>,
   retryableFailures |-> 0, last |-> NoOutcome,
   settled |-> "pending", settles |-> 0, value |-> NoValue]

\* this.logger.log(level, `... ${value} ...`)
Log(call, level, values) ==
  [call EXCEPT !.logs = Append(@, [LogLine(level) EXCEPT !.about = values])]

\* `${eventName}` (track only) and `${customerProperties.$id ||
\* customerProperties.$email}`
IdentifierAbout(op, args, cp) ==
  (IF op = "track" THEN <<args.eventName>> ELSE <<>>)
    \o <<IF Truthy(cp.id) THEN cp.id ELSE cp.email>>

\* `${eventName}` (track only) and `${email}`
EmailAbout(op, args) ==
  (IF op = "track" THEN <<args.eventName>> ELSE <<>>) \o <<args.email>>

\* `${emails}`: the entries, a missing one as the empty string
EmailsAbout(emails) ==
  [i \in DOMAIN emails |-> IF emails[i] = Absent THEN "" ELSE emails[i]]

\* a failed assert: the invocation ends with the message thrown
Throw(call, msg) == [call EXCEPT !.pc = "threw", !.threw = msg]

\* the endpoint leaving the api version out
EndpointNoVersion(apiBasePath, apiVersion, path) == apiBasePath \o "/" \o path

\* the endpoint template of _requestKlaviyo
Endpoint(apiBasePath, apiVersion, path) ==
  apiBasePath \o (IF Truthy(apiVersion) THEN "/" \o apiVersion \o "/" ELSE "/")
              \o path

\* the dispatcher sending the first attempt before it logs the endpoint
_requestKlaviyoLogsLate(this, call, apiVersion, path, params, data, method, handlers) ==
  LET endpoint == Endpoint(this.apiBasePath, apiVersion, path)
      requestParameter ==
        [method |-> OrDefault(method, "get"), url |-> endpoint,
         params |-> params, data |-> data]
  IN [call EXCEPT
        !.pc = "inflight",
        !.logs = Append(@, InfoLine(endpoint)),
        !.request = requestParameter,
        !.sent = <<[request |-> requestParameter, logged |-> Len(call.logs)]>>,
        !.attempts = 1, !.stack = <<handlers>>]

\* _requestKlaviyo up to and including the first axios(requestParameter):
\* the endpoint is logged at info, then the first attempt is issued through
\* the response interceptors installed at that moment.  params and data are
\* keys of requestParameter only when truthy (Omitted stands for the
\* missing key); method defaults to 'get'.  Each entry of sent is a request
\* handed to the transport and the number of lines logged by then.
_requestKlaviyo(this, call, apiVersion, path, params, data, method, handlers) ==
  LET endpoint == Endpoint(this.apiBasePath, apiVersion, path)
      logged == Append(call.logs, InfoLine(endpoint))
      requestParameter ==
        [method |-> OrDefault(method, "get"), url |-> endpoint,
         params |-> params, data |-> data]
  IN [call EXCEPT
        !.pc = "inflight",
        !.logs = logged,
        !.request = requestParameter,
        !.sent = <<[request |-> requestParameter, logged |-> Len(logged)]>>,
        !.attempts = 1, !.stack = <<handlers>>]

\* a string property of a JavaScript object: no member when the key is
\* missing
StringMember(key, v) ==
  IF v = Absent THEN <<>> ELSE <<Member(Spell[key], JStr(Spell[v]))>>

\* an argument that is a string or undefined
StringOrUndefined(v) == IF v = Absent THEN JUndefined ELSE JStr(Spell[v])

\* a customerProperties object and an eventProperties object as values
CustomerObject(cp) ==
  JObj(StringMember("$email", cp.email) \o StringMember("$id", cp.id))
EventObject(ep) == JObj(StringMember("plan", ep.plan))

\* data with the two property objects in each other's place
TrackDataSwapped(this, eventName, ep, cp) ==
  JObj(<<Member(Spell["event"], StringOrUndefined(eventName)),
         Member(Spell["properties"], CustomerObject(cp)),
         Member(Spell["customer_properties"], EventObject(ep)),
         Member(Spell["token"], JStr(Spell[this.publicKey]))>>)

\* const data = {...}; data['token'] = this.publicKey
TrackData(this, eventName, ep, cp) ==
  JObj(<<Member(Spell["event"], StringOrUndefined(eventName)),
         Member(Spell["properties"], EventObject(ep)),
         Member(Spell["customer_properties"], CustomerObject(cp)),
         Member(Spell["token"], JStr(Spell[this.publicKey]))>>)

IdentifyData(this, cp) ==
  JObj(<<Member(Spell["properties"], CustomerObject(cp)),
         Member(Spell["token"], JStr(Spell[this.publicKey]))>>)

\* const params = {'data': payload}
PayloadParams(this, op, args, cp) ==
  LET data == IF op = "track"
                THEN TrackData(this, args.eventName,
                               OrDefault(args.ep, [plan |-> Absent]), cp)
                ELSE IdentifyData(this, cp)
  IN Given([data |-> EncodePayload(data)])

\* track and identify of the current revision: ensureIdentifier, the
\* verbose line, then the dispatcher
identifierFacade(this, k, op, args, handlers) ==
  LET call == Invoke(k, op, args) IN
  IF ensureIdentifier(call.cp) # NoThrow
    THEN Throw(call, ensureIdentifier(call.cp))
    ELSE _requestKlaviyo(this,
                         Log(call, "verbose",
                             IdentifierAbout(op, args, call.cp)),
                         Absent, op,
                         PayloadParams(this, op, args, call.cp),
                         Omitted, Omitted, handlers)

\* the facade dispatching without looking at email
emailFacadeNoAssert(this, k, op, args, handlers) ==
  LET call == Log(Invoke(k, op, args), "verbose", EmailAbout(op, args))
      cp == [call.cp EXCEPT !.email = args.email]
      assigned == [call EXCEPT
                     !.cp = cp,
                     !.callerCp = IF @ = Omitted THEN @ ELSE Given(cp)]
  IN _requestKlaviyo(this, assigned, Absent, op,
                     PayloadParams(this, op, args, cp),
                     Omitted, Given("get"), handlers)

\* track and identify of the email and legacy revisions: the verbose line,
\* assert(email), customerProperties['$email'] = email on the object the
\* caller passed (or on the default {}), then _requestKlaviyo(verb, data),
\* whose endpoint is `${this.apiBasePath}/${verb}` and whose method is 'get'
emailFacade(this, k, op, args, handlers) ==
  LET call == Log(Invoke(k, op, args), "verbose", EmailAbout(op, args))
      cp == [call.cp EXCEPT !.email = args.email]
      assigned == [call EXCEPT
                     !.cp = cp,
                     !.callerCp = IF @ = Omitted THEN @ ELSE Given(cp)]
  IN IF ~Truthy(args.email)
       THEN Throw(call, EmailMsg)
       ELSE _requestKlaviyo(this, assigned, Absent, op,
                            PayloadParams(this, op, args, cp),
                            Omitted, Given("get"), handlers)

EmailRequiredMsg == "Email is required"
ListIdMsg == "listId is required"
EmailsMsg == "Parmeter emails is not valid array"
PrivateKeyMsg == "Klaviyo private key not set"

\* the check that lets every client through
ensurePrivateKeyAlways(this) == NoThrow

\* assert(this.privateKey, 'Klaviyo private key not set')
ensurePrivateKey(this) ==
  IF Truthy(this.privateKey) THEN NoThrow ELSE PrivateKeyMsg

\* the characters querystring.escape leaves as they are
Unreserved ==
  {AsciiChars[i] : i \in 17..26 \cup 34..59 \cup 66..91} \cup
  {"-", "_", ".", "!", "~", "*", "'", "(", ")"}

HexDigits ==
  <<"0", "1", "2", "3", "4", "5", "6", "7", "8", "9",
    "A", "B", "C", "D", "E", "F">>

\* querystring.escape: every other character as % and its byte in hex
RECURSIVE QueryEscape(_)
QueryEscape(chars) ==
  IF chars = <<>> THEN <<>>
  ELSE LET ch == Head(chars) IN
       (IF ch \in Unreserved THEN <<ch>>
        ELSE <<"%", HexDigits[(Ord[ch] \div 16) + 1],
               HexDigits[(Ord[ch] % 16) + 1]>>)
       \o QueryEscape(Tail(chars))

\* a value in querystring.stringify: a string escaped, undefined as the
\* empty string
QueryValue(v) == IF v = Absent THEN <<>> ELSE QueryEscape(Spell[v])

\* querystring.stringify({api_key: this.privateKey, email})
ExclusionData(this, email) ==
  Spell["api_key"] \o <<"=">> \o QueryValue(this.privateKey)
    \o <<"&">> \o Spell["email"] \o <<"=">> \o QueryValue(email)

\* suppress(email)
suppress(this, k, args, handlers) ==
  LET call == Invoke(k, "suppress", args) IN
  IF ~Truthy(args.email) THEN Throw(call, EmailRequiredMsg)
  ELSE IF ensurePrivateKey(this) # NoThrow
    THEN Throw(call, ensurePrivateKey(this))
  ELSE _requestKlaviyo(this, Log(call, "verbose", <<args.email>>),
                       "v1", "people/exclusions",
                       Omitted, Given(ExclusionData(this, args.email)),
                       Given("post"), handlers)

\* emails.filter((e) => e).map((email) => ({email})) keeping every entry
ProfilesUnfiltered(emails) == [i \in DOMAIN emails |-> [email |-> emails[i]]]

\* emails.filter((e) => e).map((email) => ({email}))
Profiles(emails) ==
  LET kept == SelectSeq(emails, Truthy)
  IN [i \in DOMAIN kept |-> [email |-> kept[i]]]

\* subscribe(listId, emails); emails && emails.length is falsy for a
\* missing list and for an empty one
subscribe(this, k, args, handlers) ==
  LET call == Invoke(k, "subscribe", args) IN
  IF ~Truthy(args.listId) THEN Throw(call, ListIdMsg)
  ELSE IF args.emails = Omitted \/ Len(args.emails[1]) = 0
    THEN Throw(call, EmailsMsg)
  ELSE IF ensurePrivateKey(this) # NoThrow
    THEN Throw(call, ensurePrivateKey(this))
  ELSE _requestKlaviyo(this,
                       Log(call, "verbose", EmailsAbout(args.emails[1])),
                       "v2",
                       "list/" \o args.listId \o "/subscribe", Omitted,
                       Given([api_key |-> this.privateKey,
                              profiles |-> Profiles(args.emails[1])]),
                       Given("post"), handlers)

\* the arguments a caller can pass to suppress and to subscribe
SuppressArgs == {[NoArgs EXCEPT !.email = e] : e \in {Absent, "", "a@b.com"}}

EmailLists ==
  {Omitted, Given(<<>>), Given(<<"">>), Given(<<"a@b.com">>),
   Given(<<"c@d.com", "a@b.com">>), Given(<<"a@b.com", "", "c@d.com">>),
   Given(<<Absent, "c@d.com", "">>)}

SubscribeArgs ==
  {[NoArgs EXCEPT !.listId = l, !.emails = es] :
     l \in {Absent, "", "list123"}, es \in EmailLists}

\* the arguments a caller can pass in each revision
FacadeArgs(r) ==
  IF r = "current"
    THEN {[NoArgs EXCEPT !.eventName = "ev", !.cp = cp] :
            cp \in CustomerPropsArgs}
    ELSE {[NoArgs EXCEPT !.eventName = "ev", !.email = email, !.cp = cp] :
            email \in EmailArgs,
            cp \in {Omitted, Given(EmptyObject),
                    Given([email |-> Absent, id |-> "13134"])}}

\* the arguments used where the dispatcher is what is examined: no
\* arguments at all, and one call that passes the facade's precondition
CoreArgs(r) ==
  IF r = "current"
    THEN {NoArgs,
          [NoArgs EXCEPT !.eventName = "ev",
             !.cp = Given([email |-> "a@b.com", id |-> Absent])]}
    ELSE {NoArgs, [NoArgs EXCEPT !.eventName = "ev", !.email = "a@b.com"]}

----------------------------------------------------------------------------
(* The .then and .catch handlers of _requestKlaviyo *)

\* .then treating the body 0 as a failure
onFulfilledZeroRejects(call, body) ==
  [call EXCEPT
     !.pc = "done", !.stack = <<>>, !.last = SuccessOutcome(body),
     !.logs = Append(@, LogLine(IF body = 0 THEN "warn" ELSE "verbose")),
     !.settled = IF @ # "pending" THEN @
                 ELSE IF body = 0 THEN "rejected" ELSE "resolved",
     !.settles = @ + 1,
     !.value = [body |-> body, error |-> NoError, attempt |-> 0]]

\* .then: warn when response.data === 0, verbose otherwise; resolve
onFulfilled(call, body) ==
  [call EXCEPT
     !.pc = "done", !.stack = <<>>, !.last = SuccessOutcome(body),
     !.logs = Append(@, LogLine(IF body = 0 THEN "warn" ELSE "verbose")),
     !.settled = IF @ = "pending" THEN "resolved" ELSE @,
     !.settles = @ + 1,
     !.value = [body |-> body, error |-> NoError, attempt |-> 0]]

\* .catch rejecting with a new error in place of the transport's
onRejectedWrapped(call, error) ==
  [call EXCEPT
     !.pc = "done", !.stack = <<>>, !.last = FailureOutcome(error),
     !.logs = Append(@, [ErrorLine(error) EXCEPT !.text = call.request.url]),
     !.settled = IF @ = "pending" THEN "rejected" ELSE @,
     !.settles = @ + 1,
     !.value = [body |-> 0, error |-> NoResponseError("wrapped"),
                attempt |-> 0]]

\* .catch of the current and email revisions:
\* get(error, 'response.status', 'Unkown Status'), the error line, reject
onRejected(call, error) ==
  [call EXCEPT
     !.pc = "done", !.stack = <<>>, !.last = FailureOutcome(error),
     !.logs = Append(@, [ErrorLine(error) EXCEPT !.text = call.request.url]),
     !.settled = IF @ = "pending" THEN "rejected" ELSE @,
     !.settles = @ + 1,
     !.value = [body |-> 0, error |-> error, attempt |-> call.attempts]]

\* .catch of the legacy revision: error.response.status is read unguarded,
\* so an error without a response makes the handler throw a TypeError
\* before it logs or rejects.
onRejectedLegacy(call, error) ==
  IF error.hasResponse
    THEN onRejected(call, error)
    ELSE [call EXCEPT
            !.pc = "done", !.stack = <<>>, !.last = FailureOutcome(error)]

\* one retry counter for the whole axios instance
getCurrentStateShared(cs, c) ==
  LET RECURSIVE Sum(_)
      Sum(i) == IF i = 0 THEN 0 ELSE cs[i].retryCount + Sum(i - 1)
  IN Sum(Len(cs))

\* config['axios-retry'].retryCount: the retry counter lives in the config
\* of the request, one per _requestKlaviyo invocation
getCurrentState(cs, c) == cs[c].retryCount

\* the delay growing up to 400 ms and no further
exponentialDelayCapped(retryNumber, random) ==
  LET delay == 2 ^ retryNumber * 100
      jittered == delay + (delay * random) \div 5000
  IN IF jittered > 400 THEN 400 ELSE jittered

\* axiosRetry.exponentialDelay(retryNumber): 2^retryNumber * 100 ms plus up
\* to 20% of it, delay * 0.2 * Math.random(); random is Math.random() in
\* thousandths, and the result is the whole number of milliseconds that
\* setTimeout keeps of it.
exponentialDelay(retryNumber, random) ==
  LET delay == 2 ^ retryNumber * 100
  IN delay + (delay * random) \div 5000

\* setTimeout(callback, delay): the callback runs once at least delay ms
\* have elapsed
timerFired(delay, elapsed) == elapsed >= delay

\* A failed attempt: the interceptors either schedule a retry, to be issued
\* after exponentialDelay(retryCount), or let the rejection reach the .catch
\* handler.
onAttemptFailed(r, call, retryCount, error, random) ==
  LET p == Propagate(call.stack, retryCount, error)
      failed == [call EXCEPT
                   !.retryableFailures =
                      IF _isErrorRetryable(error) THEN @ + 1 ELSE @]
  IN IF p.retry
       THEN [failed EXCEPT
               !.pc = "backoff", !.stack = p.stack,
               !.retryCount = p.retryCount, !.last = FailureOutcome(error),
               !.delays = Append(@, exponentialDelay(p.retryCount, random))]
     ELSE IF r = "legacy"
       THEN Attached(r, failed, onRejectedLegacy(failed, error))
     ELSE Attached(r, failed, onRejected(failed, error))

----------------------------------------------------------------------------
(* Actions *)

NoProbe == [error |-> NoError, classified |-> FALSE, retryable |-> FALSE]

Init ==
  /\ rev = "current"
  /\ constructions = <<>>
  /\ clients = <<>>
  /\ interceptors = <<>>
  /\ calls = <<>>
  /\ probe = NoProbe

\* new Klaviyo(publicKey, privateKey, options): axiosRetry(axios,
\* {retries, ...}) adds one more response interceptor to the axios singleton.
Construct(publicKey, privateKey, options) ==
  /\ Len(constructions) < MaxClients
  /\ LET made == constructor(interceptors, publicKey, privateKey, options) IN
     /\ constructions' =
           Append(constructions,
                  [publicKey |-> publicKey, threw |-> made.threw,
                   logger |-> made.logger,
                   installed |-> made.interceptors # interceptors])
     /\ clients' = clients \o made.object
     /\ interceptors' = made.interceptors
  /\ UNCHANGED <<rev, calls, probe>>

Facade(k, op, args) ==
  /\ k \in DOMAIN clients
  /\ calls' = Append(calls,
        IF rev = "current"
          THEN identifierFacade(clients[k], k, op, args, interceptors)
          ELSE emailFacade(clients[k], k, op, args, interceptors))
  /\ UNCHANGED <<rev, constructions, clients, interceptors, probe>>

\* suppress and subscribe exist in the current revision only
Suppress(k, args) ==
  /\ rev = "current"
  /\ k \in DOMAIN clients
  /\ calls' = Append(calls, suppress(clients[k], k, args, interceptors))
  /\ UNCHANGED <<rev, constructions, clients, interceptors, probe>>

Subscribe(k, args) ==
  /\ rev = "current"
  /\ k \in DOMAIN clients
  /\ calls' = Append(calls, subscribe(clients[k], k, args, interceptors))
  /\ UNCHANGED <<rev, constructions, clients, interceptors, probe>>

Track(k, args) == Facade(k, "track", args)

Identify(k, args) == Facade(k, "identify", args)

\* the transport completes the exchange of an attempt with a 2xx response
RespondSuccess(c, body) ==
  /\ c \in DOMAIN calls
  /\ calls[c].pc = "inflight"
  /\ calls' = [calls EXCEPT ![c] = Attached(rev, @, onFulfilled(@, body))]
  /\ UNCHANGED <<rev, constructions, clients, interceptors, probe>>

\* the transport completes the exchange of an attempt with an error
RespondError(c, error, random) ==
  /\ c \in DOMAIN calls
  /\ calls[c].pc = "inflight"
  /\ calls' = [calls EXCEPT ![c] =
        onAttemptFailed(rev, @, getCurrentState(calls, c), error, random)]
  /\ UNCHANGED <<rev, constructions, clients, interceptors, probe>>

\* the delay of the retry a call is waiting for
Due(c) ==
  IF c \in DOMAIN calls /\ calls[c].delays # <<>>
    THEN calls[c].delays[Len(calls[c].delays)]
    ELSE 0

\* the retry timer fires, elapsed ms after it was set: axios(config) issues
\* the same request again through the response interceptors installed at
\* that moment
Reissue(c, elapsed) ==
  /\ c \in DOMAIN calls
  /\ calls[c].pc = "backoff"
  /\ timerFired(Due(c), elapsed)
  /\ calls' = [calls EXCEPT ![c] =
        [@ EXCEPT !.pc = "inflight", !.attempts = @ + 1,
                  !.last = NoOutcome, !.stack = <<interceptors>> \o @,
                  !.elapsed = Append(@, elapsed),
                  !.sent = Append(@, [request |-> calls[c].request,
                                      logged |-> Len(calls[c].logs)])]]
  /\ UNCHANGED <<rev, constructions, clients, interceptors, probe>>

CoreOptions == [retryCount : RetryOptions, apiBasePath : {Omitted}]

Next ==
  \/ \E options \in CoreOptions : Construct("pk", Absent, options)
  \/ \E k \in 1..MaxClients, args \in CoreArgs(rev) :
        Len(calls) < MaxCalls /\ Track(k, args)
  \/ \E c \in 1..MaxCalls, body \in Bodies : RespondSuccess(c, body)
  \/ \E c \in 1..MaxCalls, error \in TransportErrors :
        RespondError(c, error, 0)
  \/ \E c \in 1..MaxCalls : Reissue(c, Due(c))

Spec == Init /\ [][Next]_vars

----------------------------------------------------------------------------
(* The legacy revision, src/unnamed/part_002 *)

InitLegacy ==
  /\ rev = "legacy"
  /\ constructions = <<>>
  /\ clients = <<>>
  /\ interceptors = <<>>
  /\ calls = <<>>
  /\ probe = NoProbe

SpecLegacy == InitLegacy /\ [][Next]_vars

----------------------------------------------------------------------------
(* _isErrorRetryable on its own: one error in, one classification out *)

ErrorCodes == {"", "ECONNRESET", "ETIMEDOUT", "ECONNABORTED", "ENOTFOUND"}

ClassifyErrors ==
  {HttpError(s) : s \in 100..MaxStatus} \cup
  {NoResponseError(code) : code \in ErrorCodes}

InitClassify ==
  /\ rev = "current"
  /\ constructions = <<>>
  /\ clients = <<>>
  /\ interceptors = <<>>
  /\ calls = <<>>
  /\ probe \in [error : ClassifyErrors, classified : {FALSE},
                 retryable : {FALSE}]

Classify ==
  /\ ~probe.classified
  /\ probe' = [probe EXCEPT !.classified = TRUE,
                            !.retryable = _isErrorRetryable(probe.error)]
  /\ UNCHANGED <<rev, constructions, clients, interceptors, calls>>

NextClassify == Classify

SpecClassify == InitClassify /\ [][NextClassify]_vars

----------------------------------------------------------------------------
(* The facade over all its arguments, the transport over fewer outcomes *)

FacadeOptions == [retryCount : {Given(1)}, apiBasePath : {Omitted}]
FacadeErrors == {HttpError(400), HttpError(500)}

NextFacade ==
  \/ \E options \in FacadeOptions : Construct("pk", Absent, options)
  \/ \E k \in 1..MaxClients, args \in FacadeArgs(rev) :
        Len(calls) < MaxCalls /\ Track(k, args)
  \/ \E k \in 1..MaxClients, args \in FacadeArgs(rev) :
        Len(calls) < MaxCalls /\ Identify(k, args)
  \/ \E c \in 1..MaxCalls : RespondSuccess(c, 1)
  \/ \E c \in 1..MaxCalls, error \in FacadeErrors : RespondError(c, error, 0)
  \/ \E c \in 1..MaxCalls : Reissue(c, Due(c))

SpecFacade == Init /\ [][NextFacade]_vars

----------------------------------------------------------------------------
(* The email-parameter revision, src/lib/index.js 303-516, over all the
   arguments of its facade *)

InitEmail ==
  /\ rev = "email"
  /\ constructions = <<>>
  /\ clients = <<>>
  /\ interceptors = <<>>
  /\ calls = <<>>
  /\ probe = NoProbe

SpecEmail == InitEmail /\ [][NextFacade]_vars

----------------------------------------------------------------------------
(* suppress and subscribe, on clients with and without a private key *)

PrivateKeys == {Absent, "sk"}

NextPrivate ==
  \/ \E privateKey \in PrivateKeys, options \in FacadeOptions :
        Construct("pk", privateKey, options)
  \/ \E k \in 1..MaxClients, args \in SuppressArgs :
        Len(calls) < MaxCalls /\ Suppress(k, args)
  \/ \E k \in 1..MaxClients, args \in SubscribeArgs :
        Len(calls) < MaxCalls /\ Subscribe(k, args)
  \/ \E c \in 1..MaxCalls : RespondSuccess(c, 1)
  \/ \E c \in 1..MaxCalls : RespondError(c, HttpError(500), 0)
  \/ \E c \in 1..MaxCalls : Reissue(c, Due(c))

SpecPrivate == Init /\ [][NextPrivate]_vars

----------------------------------------------------------------------------
(* Construction with and without a public key *)

PublicKeys == {Absent, "", "pk"}

NextConstruct ==
  \/ \E publicKey \in PublicKeys, options \in CoreOptions :
        Construct(publicKey, Absent, options)
  \/ \E k \in 1..MaxClients, args \in CoreArgs(rev) :
        Len(calls) < MaxCalls /\ Track(k, args)
  \/ \E c \in 1..MaxCalls : RespondSuccess(c, 1)
  \/ \E c \in 1..MaxCalls, error \in FacadeErrors : RespondError(c, error, 0)
  \/ \E c \in 1..MaxCalls : Reissue(c, Due(c))

SpecConstruct == Init /\ [][NextConstruct]_vars

----------------------------------------------------------------------------
(* Every operation of the facade, on clients with and without the
   apiBasePath option *)

EndpointOptions ==
  [retryCount : {Given(1)}, apiBasePath : {Omitted, Given("http://h/")}]

TrackArg ==
  [NoArgs EXCEPT !.eventName = "ev",
     !.cp = Given([email |-> "a@b.com", id |-> Absent])]
SuppressArg == [NoArgs EXCEPT !.email = "a@b.com"]
SubscribeArg ==
  [NoArgs EXCEPT !.listId = "list123", !.emails = Given(<<"a@b.com">>)]

NextEndpoint ==
  \/ \E options \in EndpointOptions : Construct("pk", "sk", options)
  \/ \E k \in 1..MaxClients : Len(calls) < MaxCalls /\ Track(k, TrackArg)
  \/ \E k \in 1..MaxClients : Len(calls) < MaxCalls /\ Identify(k, TrackArg)
  \/ \E k \in 1..MaxClients : Len(calls) < MaxCalls /\ Suppress(k, SuppressArg)
  \/ \E k \in 1..MaxClients :
        Len(calls) < MaxCalls /\ Subscribe(k, SubscribeArg)
  \/ \E c \in 1..MaxCalls : RespondSuccess(c, 1)
  \/ \E c \in 1..MaxCalls : RespondError(c, HttpError(500), 0)
  \/ \E c \in 1..MaxCalls : Reissue(c, Due(c))

SpecEndpoint == Init /\ [][NextEndpoint]_vars

----------------------------------------------------------------------------
(* The retry delays: Math.random() at both ends of its range, the timer
   asked to fire one millisecond early and on time *)

BackoffOptions == [retryCount : {Omitted}, apiBasePath : {Omitted}]
Randoms == {0, 999}

NextBackoff ==
  \/ \E options \in BackoffOptions : Construct("pk", Absent, options)
  \/ \E k \in 1..MaxClients : Len(calls) < MaxCalls /\ Track(k, TrackArg)
  \/ \E c \in 1..MaxCalls : RespondSuccess(c, 1)
  \/ \E c \in 1..MaxCalls, random \in Randoms :
        RespondError(c, HttpError(500), random)
  \/ \E c \in 1..MaxCalls :
        \E elapsed \in {Due(c) - 1, Due(c)} : Reissue(c, elapsed)

SpecBackoff == Init /\ [][NextBackoff]_vars

----------------------------------------------------------------------------
(* track with its three arguments, on clients with different public keys *)

TrackPublicKeys == {"pk", "pk2"}

TrackArgs ==
  {[NoArgs EXCEPT !.eventName = "ev",
      !.cp = Given([email |-> "a@b.com", id |-> Absent])],
   [NoArgs EXCEPT !.eventName = "ev",
      !.cp = Given([email |-> Absent, id |-> "13134"]),
      !.ep = Given([plan |-> "x"])],
   [NoArgs EXCEPT !.eventName = "a\"b",
      !.cp = Given([email |-> "a@b.com", id |-> "13134"]),
      !.ep = Given([plan |-> "a\"b"])]}

NextTrack ==
  \/ \E publicKey \in TrackPublicKeys, options \in FacadeOptions :
        Construct(publicKey, Absent, options)
  \/ \E k \in 1..MaxClients, args \in TrackArgs :
        Len(calls) < MaxCalls /\ Track(k, args)
  \/ \E c \in 1..MaxCalls : RespondSuccess(c, 1)
  \/ \E c \in 1..MaxCalls : RespondError(c, HttpError(500), 0)
  \/ \E c \in 1..MaxCalls : Reissue(c, Due(c))

SpecTrack == Init /\ [][NextTrack]_vars

----------------------------------------------------------------------------
(* Several calls in flight at once, over fewer inputs *)

ConcurrentOptions ==
  [retryCount : {Given(0), Given(1)}, apiBasePath : {Omitted}]
ConcurrentArgs ==
  {[NoArgs EXCEPT !.eventName = "ev",
      !.cp = Given([email |-> "a@b.com", id |-> Absent])]}
ConcurrentErrors == {HttpError(400), HttpError(500)}

NextConcurrent ==
  \/ \E options \in ConcurrentOptions : Construct("pk", Absent, options)
  \/ \E k \in 1..MaxClients, args \in ConcurrentArgs :
        Len(calls) < MaxConcurrent /\ Track(k, args)
  \/ \E c \in 1..MaxConcurrent : RespondSuccess(c, 1)
  \/ \E c \in 1..MaxConcurrent, error \in ConcurrentErrors :
        RespondError(c, error, 0)
  \/ \E c \in 1..MaxConcurrent : Reissue(c, Due(c))

SpecConcurrent == Init /\ [][NextConcurrent]_vars

----------------------------------------------------------------------------
(* Properties *)

Dispatched(call) == call.pc # "threw"

\* C2: _isErrorRetryable is true for a network error, true for every
\* received status 500..599, true for 429, and false for every other
\* received status.
C2_RetryClassification ==
  probe.classified =>
    LET e == probe.error IN
    /\ (~e.hasResponse /\ e.code \in {"ECONNRESET", "ETIMEDOUT"})
          => probe.retryable
    /\ (e.hasResponse /\ e.status >= 500 /\ e.status <= 599)
          => probe.retryable
    /\ (e.hasResponse /\ e.status = 429) => probe.retryable
    /\ (e.hasResponse /\ e.status # 429
          /\ (e.status < 500 \/ e.status > 599)) => ~probe.retryable

C2_Witness ==
  /\ probe.classified
  /\ probe.error = HttpError(429)
  /\ probe.retryable

\* C10: track and identify throw the identifier message exactly when
\* neither $email nor $id is truthy in the customerProperties passed
\* (none passed counts as neither), do not throw otherwise, and a call that
\* threw issued no request.
C10_IdentifierPrecondition ==
  \A c \in DOMAIN calls :
    LET call == calls[c]
        present ==
          /\ call.args.cp # Omitted
          /\ \/ Truthy(call.args.cp[1].email)
             \/ Truthy(call.args.cp[1].id)
    IN /\ call.op \in {"track", "identify"}
       /\ ~present => /\ call.threw = IdentifierMsg
                      /\ call.pc = "threw"
                      /\ call.attempts = 0
       /\ present => /\ call.threw = NoThrow
                     /\ call.attempts >= 1

C10_Witness ==
  \E c \in DOMAIN calls :
    /\ calls[c].args.cp = Omitted
    /\ calls[c].threw = IdentifierMsg
    /\ calls[c].attempts = 0

----------------------------------------------------------------------------
(* Properties of the dispatcher *)

ConfiguredRetries(call) == clients[call.client].retryCount

HasSucceeded(call) == call.last.kind = "success"

HasFailedFinally(call) ==
  call.last.kind = "failure" /\ ~_isErrorRetryable(call.last.error)

\* C1: a call whose every attempt fails with a retryable error makes
\* exactly N+1 attempts, N the retryCount its client was constructed with,
\* and only then rejects; no call makes more than N+1 attempts.
C1_ExactlyConfiguredRetries ==
  \A c \in DOMAIN calls :
    LET call == calls[c] IN
    Dispatched(call) =>
      /\ call.attempts <= ConfiguredRetries(call) + 1
      /\ (call.settled = "rejected" /\ call.retryableFailures = call.attempts)
           => call.attempts = ConfiguredRetries(call) + 1

\* C3: after an attempt has succeeded, or has failed with a non-retryable
\* classification, the call issues no further attempt; a permanent remote
\* error answering the first attempt is surfaced after that one attempt.
C3_FinalOutcome ==
  \A c \in DOMAIN calls :
    LET call == calls[c] IN
    (HasSucceeded(call) \/ HasFailedFinally(call)) =>
      /\ call.pc = "done"
      /\ (call.retryableFailures = 0 => call.attempts = 1)
      /\ (HasFailedFinally(call) /\ call.last.error.hasResponse)
           => call.settled = "rejected"

C3_NoAttemptAfterFinalOutcome ==
  [][/\ C3_FinalOutcome
     /\ C3_FinalOutcome'
     /\ \A c \in DOMAIN calls :
          (HasSucceeded(calls[c]) \/ HasFailedFinally(calls[c])) =>
            calls'[c].attempts = calls[c].attempts]_vars

C3_Witness ==
  \E c \in DOMAIN calls :
    /\ calls[c].last = FailureOutcome(HttpError(400))
    /\ calls[c].attempts = 1
    /\ calls[c].settled = "rejected"

\* C4: every dispatched call whose handlers have run is settled, exactly
\* once, also when the final failure carries no response.
C4_SettlesExactlyOnce ==
  \A c \in DOMAIN calls :
    LET call == calls[c] IN
    (Dispatched(call) /\ call.pc = "done") =>
      /\ call.settled \in {"resolved", "rejected"}
      /\ call.settles = 1

\* C5: a dispatch that ends in failure rejects with the error of its last
\* attempt, unchanged, and logs one error line carrying that error's
\* status, or no status when the error has no response; a call that has not
\* ended in failure has logged no error line.
C5_TerminalFailureLoggedOnce ==
  \A c \in DOMAIN calls :
    LET call == calls[c]
        failed == call.pc = "done" /\ call.last.kind = "failure"
    IN /\ failed =>
            /\ call.settled = "rejected"
            /\ call.value.error = call.last.error
            /\ call.value.attempt = call.attempts
            /\ CountLevel(call.logs, "error") = 1
            /\ LET line == call.logs[Len(call.logs)] IN
               /\ line.level = "error"
               /\ line.hasStatus = call.last.error.hasResponse
               /\ line.hasStatus => line.status = call.last.error.status
       /\ ~failed =>
            /\ CountLevel(call.logs, "error") = 0
            /\ call.settled # "rejected"

C5_Witness ==
  \E c \in DOMAIN calls :
    /\ calls[c].settled = "rejected"
    /\ calls[c].attempts >= 2
    /\ ~calls[c].last.error.hasResponse
    /\ ~calls[c].logs[Len(calls[c].logs)].hasStatus

\* C6: a successful exchange resolves with its body; the body 0 adds one
\* warn line, any other body a verbose line and no warn line.
C6_ZeroBodyResolves ==
  \A c \in DOMAIN calls :
    LET call == calls[c] IN
    HasSucceeded(call) =>
      /\ call.pc = "done"
      /\ call.settled = "resolved"
      /\ call.value.body = call.last.body
      /\ call.logs[Len(call.logs)].level =
            IF call.last.body = 0 THEN "warn" ELSE "verbose"
      /\ CountLevel(call.logs, "warn") = IF call.last.body = 0 THEN 1 ELSE 0
      /\ CountLevel(call.logs, "error") = 0

C6_Witness ==
  \E c \in DOMAIN calls :
    /\ calls[c].last = SuccessOutcome(0)
    /\ calls[c].settled = "resolved"
    /\ calls[c].value.body = 0

\* C7: a retryable error is surfaced only once the client's retries are
\* used up; a success after retried failures resolves with its body, logs
\* no error line, and no attempt follows it.
C7_SurfacedOrResolved ==
  \A c \in DOMAIN calls :
    LET call == calls[c] IN
    /\ (call.settled = "rejected" /\ _isErrorRetryable(call.value.error))
         => call.attempts >= ConfiguredRetries(call) + 1
    /\ (HasSucceeded(call) /\ call.attempts > 1) =>
         /\ call.settled = "resolved"
         /\ call.value.body = call.last.body
         /\ CountLevel(call.logs, "error") = 0

C7_TransientSurfacedAfterRetries ==
  [][/\ C7_SurfacedOrResolved
     /\ C7_SurfacedOrResolved'
     /\ \A c \in DOMAIN calls :
          HasSucceeded(calls[c]) => calls'[c] = calls[c]]_vars

C7_Witness ==
  \E c \in DOMAIN calls :
    /\ HasSucceeded(calls[c])
    /\ calls[c].attempts = 2
    /\ calls[c].retryableFailures = 1
    /\ calls[c].settled = "resolved"

\* C8: the retries applied to a call never exceed the retryCount its
\* client was constructed with, whatever other clients are constructed.
C8_RetriesFixedPerClient ==
  \A c \in DOMAIN calls :
    Dispatched(calls[c]) =>
      calls[c].retryCount <= ConfiguredRetries(calls[c])

\* the largest retries option among the installed handlers
MaxRetries(handlers) ==
  IF handlers = <<>> THEN 0
  ELSE CHOOSE m \in {handlers[i] : i \in DOMAIN handlers} :
         \A i \in DOMAIN handlers : handlers[i] <= m

\* C9: each call has its own retry counter: it counts that call's retried
\* attempts and nothing else, so no call loses retries to another call's
\* failures or gains attempts from them, and the call settles with the
\* outcome of its own last attempt.
C9_RetryCounterPerCall ==
  \A c \in DOMAIN calls :
    LET call == calls[c] IN
    Dispatched(call) =>
      /\ call.retryCount = call.attempts - (IF call.pc = "backoff" THEN 0 ELSE 1)
      /\ call.attempts <= MaxRetries(interceptors) + 1
      /\ (call.pc = "done" /\ call.last.kind = "failure"
            /\ _isErrorRetryable(call.last.error))
           => call.attempts >= ConfiguredRetries(call) + 1
      /\ call.settled = "resolved" =>
            HasSucceeded(call) /\ call.value.body = call.last.body
      /\ call.settled = "rejected" =>
            /\ call.last.kind = "failure"
            /\ call.value.error = call.last.error
            /\ call.value.attempt = call.attempts

C9_Witness ==
  \E c, d \in DOMAIN calls :
    /\ c # d
    /\ calls[c].pc = "backoff" /\ calls[c].attempts = 1
    /\ calls[d].pc = "inflight" /\ calls[d].attempts = 2

----------------------------------------------------------------------------
(* Properties of the classification of errors without a response *)

\* no response, and not an error axios-retry recognises as a network error
UnknownCause(error) == ~error.hasResponse /\ ~isNetworkError(error)

\* C19: an attempt failing with an error that has no response and is not a
\* recognised network error (a timeout, ECONNABORTED) is never retried: the
\* call rejects with that error at once, and when it was the first attempt
\* the call has made exactly one attempt.
C19_UnknownCauseNotRetried ==
  \A c \in DOMAIN calls :
    LET call == calls[c] IN
    (call.last.kind = "failure" /\ UnknownCause(call.last.error)) =>
      /\ call.pc = "done"
      /\ call.settled = "rejected"
      /\ call.value.error = call.last.error
      /\ call.retryCount = call.attempts - 1
      /\ Len(call.sent) = call.attempts
      /\ call.retryableFailures = 0 => call.attempts = 1

C19_Witness ==
  \E c \in DOMAIN calls :
    /\ calls[c].last = FailureOutcome(NoResponseError("ECONNABORTED"))
    /\ ConfiguredRetries(calls[c]) >= 1
    /\ calls[c].attempts = 1
    /\ calls[c].settled = "rejected"

----------------------------------------------------------------------------
(* Properties of the log *)

InfoLines(call) == {i \in DOMAIN call.logs : call.logs[i].level = "info"}

\* C20: every dispatched call has logged exactly one info line, the
\* endpoint of its request; that line was logged before the first attempt
\* was handed to the transport, and the retries add no info line.
C20_EndpointLoggedOnceBeforeSending ==
  \A c \in DOMAIN calls :
    LET call == calls[c] IN
    /\ Dispatched(call) =>
         /\ Cardinality(InfoLines(call)) = 1
         /\ \A i \in InfoLines(call) :
              /\ call.logs[i].text = call.request.url
              /\ i <= call.sent[1].logged
         /\ Len(call.sent) = call.attempts
    /\ ~Dispatched(call) => InfoLines(call) = {} /\ call.sent = <<>>

C20_Witness ==
  \E c \in DOMAIN calls :
    /\ calls[c].attempts = 2
    /\ Len(calls[c].sent) = 2
    /\ Cardinality(InfoLines(calls[c])) = 1
    /\ calls[c].pc = "done"

----------------------------------------------------------------------------
(* Properties of the facade's arguments *)

\* C14: after track or identify, in every outcome, the customerProperties
\* object the caller passed has the keys and values it had before the call.
C14_CallerObjectsUnchanged ==
  \A c \in DOMAIN calls :
    calls[c].op \in {"track", "identify"} =>
      calls[c].callerCp = calls[c].args.cp

\* C18: in the email-parameter revision a track or identify call whose
\* email is missing or falsy throws 'You must pass an email value.' and
\* hands no request to the transport.
C18_EmailRequired ==
  \A c \in DOMAIN calls :
    LET call == calls[c] IN
    (rev = "email" /\ call.op \in {"track", "identify"}
       /\ ~Truthy(call.args.email)) =>
      /\ call.pc = "threw"
      /\ call.threw = EmailMsg
      /\ call.attempts = 0
      /\ call.sent = <<>>
      /\ call.request = NoRequest
      /\ call.settled = "pending"

C18_Witness ==
  \E c \in DOMAIN calls :
    /\ rev = "email"
    /\ calls[c].op = "identify"
    /\ calls[c].args.email = Absent
    /\ calls[c].args.cp # Omitted
    /\ calls[c].threw = EmailMsg
    /\ calls[c].sent = <<>>

----------------------------------------------------------------------------
(* Properties of suppress and subscribe *)

\* the message of the first precondition a suppress or subscribe call
\* fails, NoThrow when it fails none
FirstFailure(call) ==
  LET args == call.args
      noKey == ~Truthy(clients[call.client].privateKey)
  IN IF call.op = "suppress"
       THEN IF ~Truthy(args.email) THEN EmailRequiredMsg
            ELSE IF noKey THEN PrivateKeyMsg
            ELSE NoThrow
     ELSE IF ~Truthy(args.listId) THEN ListIdMsg
     ELSE IF args.emails = Omitted \/ args.emails = Given(<<>>) THEN EmailsMsg
     ELSE IF noKey THEN PrivateKeyMsg
     ELSE NoThrow

\* C11: a suppress or subscribe call that fails a precondition (falsy
\* email; falsy listId; missing or empty emails; no private key on the
\* client) throws the message of that precondition, and no request of it
\* ever reaches the transport: no attempt, no retry, no delay.
C11_PreconditionsThrowBeforeDispatch ==
  \A c \in DOMAIN calls :
    LET call == calls[c] IN
    (call.op \in {"suppress", "subscribe"} /\ FirstFailure(call) # NoThrow) =>
      /\ call.pc = "threw"
      /\ call.threw = FirstFailure(call)
      /\ call.attempts = 0
      /\ call.sent = <<>>
      /\ call.retryCount = 0
      /\ call.delays = <<>>
      /\ call.settled = "pending"

C11_Witness ==
  \E c \in DOMAIN calls :
    /\ calls[c].op = "subscribe"
    /\ calls[c].args.listId = "list123"
    /\ calls[c].args.emails = Given(<<"a@b.com">>)
    /\ clients[calls[c].client].privateKey = Absent
    /\ calls[c].threw = PrivateKeyMsg
    /\ calls[c].sent = <<>>

\* the positions of the truthy entries of a list
TruthyAt(emails) == {i \in DOMAIN emails : Truthy(emails[i])}

\* C16: a subscribe call that passes its preconditions POSTs to
\* {apiBasePath}/v2/list/{listId}/subscribe a body whose api_key is the
\* client's private key and whose profiles are the {email} objects of
\* exactly the truthy entries of emails, in their original order; every
\* attempt sends that request.
C16_SubscribeRequest ==
  \A c \in DOMAIN calls :
    LET call == calls[c]
        this == clients[call.client]
    IN (call.op = "subscribe" /\ FirstFailure(call) = NoThrow) =>
         LET emails == call.args.emails[1]
             body == call.request.data[1]
         IN /\ Dispatched(call) /\ call.attempts >= 1
            /\ call.request.method = "post"
            /\ call.request.url =
                  this.apiBasePath \o "/v2/list/" \o call.args.listId
                                  \o "/subscribe"
            /\ call.request.params = Omitted
            /\ call.request.data # Omitted
            /\ body.api_key = this.privateKey
            /\ Len(body.profiles) = Cardinality(TruthyAt(emails))
            /\ \A i \in TruthyAt(emails) :
                  body.profiles[Cardinality({j \in TruthyAt(emails) : j <= i})]
                    = [email |-> emails[i]]
            /\ \A n \in DOMAIN call.sent : call.sent[n].request = call.request

C16_Witness ==
  \E c \in DOMAIN calls :
    /\ calls[c].op = "subscribe"
    /\ calls[c].args.emails = Given(<<"a@b.com", "", "c@d.com">>)
    /\ calls[c].attempts = 2
    /\ calls[c].request.data[1].profiles =
          <<[email |-> "a@b.com"], [email |-> "c@d.com"]>>

----------------------------------------------------------------------------
(* Properties of the constructor *)

Threw(construction) == construction.threw # NoThrow

\* every construction without a public key threw the public-key message,
\* created no logger and installed no retry handler; the clients and the
\* retry handlers are those of the constructions that did not throw
C12_OnlyKeyedClients ==
  /\ \A i \in DOMAIN constructions :
       LET construction == constructions[i] IN
       IF ~Truthy(construction.publicKey)
         THEN /\ construction.threw = PublicKeyMsg
              /\ ~construction.logger
              /\ ~construction.installed
         ELSE ~Threw(construction)
  /\ Len(clients) =
       Cardinality({i \in DOMAIN constructions : ~Threw(constructions[i])})
  /\ Len(interceptors) = Len(clients)
  /\ \A k \in DOMAIN clients : Truthy(clients[k].publicKey)

\* C12: new Klaviyo without a public key (undefined or empty) throws 'You
\* must pass your Klaviyo public key.' and has no other effect: the step
\* creates no client and no logger, installs no retry handler on the
\* transport and issues no request.
C12_PublicKeyRequired ==
  [][/\ C12_OnlyKeyedClients
     /\ C12_OnlyKeyedClients'
     /\ (/\ Len(constructions') > Len(constructions)
         /\ Threw(constructions'[Len(constructions')]))
          => UNCHANGED <<clients, interceptors, calls>>]_vars

C12_Witness ==
  /\ Len(constructions) = 2
  /\ constructions[1].threw = NoThrow
  /\ constructions[2].publicKey = ""
  /\ constructions[2].threw = PublicKeyMsg
  /\ Len(interceptors) = 1
  /\ \E c \in DOMAIN calls : calls[c].attempts = 2

----------------------------------------------------------------------------
(* Properties of the endpoint *)

\* what follows apiBasePath in the endpoint of each operation
EndpointSuffix(call) ==
  CASE call.op = "track" -> "/track"
    [] call.op = "identify" -> "/identify"
    [] call.op = "suppress" -> "/v1/people/exclusions"
    [] call.op = "subscribe" -> "/v2/list/" \o call.args.listId \o "/subscribe"

\* C17: the endpoint of a dispatched call is apiBasePath, "/", the api
\* version and "/" when the operation has one, and the resource path, with
\* apiBasePath taken as configured; the endpoint logged, the first attempt
\* and every retry use that same endpoint.
C17_EndpointConstruction ==
  \A c \in DOMAIN calls :
    LET call == calls[c]
        endpoint == clients[call.client].apiBasePath \o EndpointSuffix(call)
    IN Dispatched(call) =>
         /\ call.request.url = endpoint
         /\ Len(call.sent) = call.attempts
         /\ \A n \in DOMAIN call.sent : call.sent[n].request.url = endpoint
         /\ \A i \in InfoLines(call) : call.logs[i].text = endpoint

C17_Witness ==
  \E c \in DOMAIN calls :
    /\ calls[c].op = "subscribe"
    /\ clients[calls[c].client].apiBasePath = "http://h/"
    /\ calls[c].attempts = 2
    /\ calls[c].sent[2].request.url = "http://h//v2/list/list123/subscribe"

----------------------------------------------------------------------------
(* Properties of the retry delays *)

\* C13: one delay is computed for each retry of a call; the delay before
\* retry n is strictly greater than the delay before retry n-1 and is at
\* least 2^n * 100 ms, so it is not capped; and retry n was issued only
\* once its delay had elapsed.
C13_BackoffStrictlyIncreasing ==
  \A c \in DOMAIN calls :
    LET call == calls[c] IN
    /\ Len(call.delays) = call.retryCount
    /\ Len(call.elapsed) = call.attempts - 1
    /\ Len(call.delays) =
         IF call.pc = "backoff" THEN call.attempts ELSE Len(call.elapsed)
    /\ \A n \in DOMAIN call.delays :
         /\ call.delays[n] >= 2 ^ n * 100
         /\ n > 1 => call.delays[n] > call.delays[n - 1]
    /\ \A n \in DOMAIN call.elapsed : call.elapsed[n] >= call.delays[n]

C13_Witness ==
  \E c \in DOMAIN calls :
    /\ calls[c].attempts = 4
    /\ calls[c].delays[1] = 239
    /\ calls[c].delays[2] = 400
    /\ calls[c].delays[3] = 959
    /\ calls[c].elapsed = calls[c].delays

----------------------------------------------------------------------------
(* Properties of the track request *)

\* the object has exactly the keys given, each once
HasKeys(obj, keys) ==
  /\ obj.t = "object"
  /\ Len(obj.v) = Cardinality(keys)
  /\ {obj.v[i].k : i \in DOMAIN obj.v} = {Spell[key] : key \in keys}

\* C15: a track call that passes its precondition sends GET requests only,
\* to {apiBasePath}/track, with the one query parameter data and no body;
\* data, base64-decoded and JSON-parsed, is an object whose token is the
\* client's public key, whose event is eventName, whose properties is
\* eventProperties and whose customer_properties is customerProperties;
\* when the first response is a success that one request is the only one
\* and the call resolves with the response body.
C15_TrackRequest ==
  \A c \in DOMAIN calls :
    LET call == calls[c]
        this == clients[call.client]
        args == call.args
    IN (call.op = "track" /\ Dispatched(call)) =>
         LET decoded == DecodePayload(call.request.params[1].data)
             properties == Get(decoded, Spell["properties"])
             customer == Get(decoded, Spell["customer_properties"])
             ep == OrDefault(args.ep, [plan |-> Absent])
             cp == args.cp[1]
         IN /\ call.request.method = "get"
            /\ call.request.url = this.apiBasePath \o "/track"
            /\ call.request.data = Omitted
            /\ DOMAIN call.request.params[1] = {"data"}
            /\ \A n \in DOMAIN call.sent : call.sent[n].request = call.request
            /\ HasKeys(decoded,
                       {"event", "properties", "customer_properties", "token"})
            /\ Get(decoded, Spell["token"]) = JStr(Spell[this.publicKey])
            /\ Get(decoded, Spell["event"]) = JStr(Spell[args.eventName])
            /\ HasKeys(properties, {"plan"} \ {k \in {"plan"} : ep.plan = Absent})
            /\ Get(properties, Spell["plan"]) = StringOrUndefined(ep.plan)
            /\ HasKeys(customer,
                       {k \in {"$email"} : cp.email # Absent} \cup
                       {k \in {"$id"} : cp.id # Absent})
            /\ Get(customer, Spell["$email"]) = StringOrUndefined(cp.email)
            /\ Get(customer, Spell["$id"]) = StringOrUndefined(cp.id)
            /\ (HasSucceeded(call) /\ call.retryableFailures = 0) =>
                  /\ Len(call.sent) = 1
                  /\ call.settled = "resolved"
                  /\ call.value.body = call.last.body

C15_Witness ==
  \E c \in DOMAIN calls :
    /\ calls[c].op = "track"
    /\ calls[c].args.eventName = "a\"b"
    /\ calls[c].args.cp = Given([email |-> "a@b.com", id |-> "13134"])
    /\ clients[calls[c].client].publicKey = "pk2"
    /\ Len(calls[c].sent) = 1
    /\ calls[c].settled = "resolved"
    /\ calls[c].value.body = 1

----------------------------------------------------------------------------
(* Properties of the profiles of subscribe *)

\* C21: every subscribe request handed to the transport carries at least
\* one profile, and a subscribe call whose emails has no truthy entry
\* throws and hands no request to the transport.
C21_SubscribeHasProfile ==
  \A c \in DOMAIN calls :
    LET call == calls[c] IN
    call.op = "subscribe" =>
      /\ Dispatched(call) => Len(call.request.data[1].profiles) >= 1
      /\ (call.args.emails # Omitted /\ TruthyAt(call.args.emails[1]) = {})
           => /\ call.pc = "threw"
              /\ call.attempts = 0
              /\ call.sent = <<>>

----------------------------------------------------------------------------
(* Where the private key goes: clients holding a private key, the four
   operations, and every outcome of a request (accepted, soft rejection,
   retried failure, terminal failure) *)

ConfineErrors == {HttpError(400), HttpError(500), NoResponseError("ECONNRESET")}

NextConfine ==
  \/ \E options \in FacadeOptions : Construct("pk", "sk", options)
  \/ \E k \in 1..MaxClients : Len(calls) < MaxCalls /\ Track(k, TrackArg)
  \/ \E k \in 1..MaxClients : Len(calls) < MaxCalls /\ Identify(k, TrackArg)
  \/ \E k \in 1..MaxClients, args \in SuppressArgs :
        Len(calls) < MaxCalls /\ Suppress(k, args)
  \/ \E k \in 1..MaxClients, args \in SubscribeArgs :
        Len(calls) < MaxCalls /\ Subscribe(k, args)
  \/ \E c \in 1..MaxCalls, body \in Bodies : RespondSuccess(c, body)
  \/ \E c \in 1..MaxCalls, error \in ConfineErrors : RespondError(c, error, 0)
  \/ \E c \in 1..MaxCalls : Reissue(c, Due(c))

SpecConfine == Init /\ [][NextConfine]_vars

\* needle is a run of consecutive elements of hay (two strings, or two
\* sequences of characters)
Occurs(needle, hay) ==
  \E i \in 1..(Len(hay) - Len(needle) + 1) :
    SubSeq(hay, i, i + Len(needle) - 1) = needle

\* the key is in the base64 text of a data query parameter, as sent or
\* decoded
InPayload(key, payload) ==
  \/ Occurs(Spell[key], payload)
  \/ Occurs(Spell[key], Text(Base64Decode(payload)))

\* the key is in a request body: the form-urlencoded text of suppress, or
\* the api_key member of the object of subscribe
InBody(key, op, data) ==
  IF op = "suppress"
    THEN Occurs(Spell["api_key"] \o <<"=">> \o Spell[key], data)
  ELSE data.api_key = key

\* the object passed to logger.log after the message holds the key
MetaHolds(key, call, meta) ==
  CASE meta = "none" -> FALSE
    [] meta = "requestData" ->
         /\ call.request.data # Omitted
         /\ InBody(key, call.op, call.request.data[1])
    [] OTHER ->
         /\ call.request.params # Omitted
         /\ InPayload(key, call.request.params[1].data)

\* C22: the private key of a client is in the body of every POST request
\* of suppress and subscribe and nowhere else: whatever the outcome of a
\* call, no log line holds it (in the endpoint or the argument values of
\* its message, or in the object logged with it), no request holds it in
\* its URL or its query parameter, and the requests of track and identify
\* are GET requests without a body.
C22_PrivateKeyConfined ==
  \A c \in DOMAIN calls :
    LET call == calls[c]
        key == clients[call.client].privateKey
    IN /\ \A i \in DOMAIN call.logs :
            /\ ~Occurs(key, call.logs[i].text)
            /\ \A j \in DOMAIN call.logs[i].about :
                  ~Occurs(key, call.logs[i].about[j])
            /\ ~MetaHolds(key, call, call.logs[i].meta)
       /\ \A n \in DOMAIN call.sent :
            LET request == call.sent[n].request IN
            /\ ~Occurs(key, request.url)
            /\ request.params # Omitted =>
                  ~InPayload(key, request.params[1].data)
            /\ call.op \in {"track", "identify"} =>
                  /\ request.method = "get"
                  /\ request.params # Omitted
                  /\ request.data = Omitted
            /\ call.op \in {"suppress", "subscribe"} =>
                  /\ request.method = "post"
                  /\ request.params = Omitted
                  /\ request.data # Omitted
                  /\ InBody(key, call.op, request.data[1])

C22_Witness ==
  \E c \in DOMAIN calls :
    LET call == calls[c] IN
    /\ call.op = "suppress"
    /\ clients[call.client].privateKey = "sk"
    /\ Len(call.sent) = 2
    /\ call.settled = "rejected"
    /\ call.logs[Len(call.logs)].level = "error"
    /\ call.logs[Len(call.logs)].meta = "params"
    /\ call.logs[Len(call.logs)].text = call.request.url
    /\ call.logs[1].about = <<"a@b.com">>
    /\ InBody("sk", "suppress", call.sent[2].request.data[1])

====
